---- MODULE Spec2Model ----
(***************************************************************************)
(* A model of opt-handler's OptHandler class (src/src/OptHandler.ts): the  *)
(* positional-spec validator run by the constructor, the tokenizer         *)
(* (parseArg), the CLI-name derivation (toCliArg), value coercion          *)
(* (getArgValue, getPositionArgValue) and fromProgramArgs, stepped phase   *)
(* by phase: option scanning (one loop iteration per step), the help       *)
(* check, the three positional phases, the surplus check, the conditions.  *)
(*                                                                         *)
(* Strings are sequences of one-character strings, so that the regular     *)
(* expressions of the source are modelled on characters.  A JavaScript     *)
(* value is a record with one field naming its type: [str |-> chars],      *)
(* [num |-> n], [nan |-> TRUE], [bool |-> b], [list |-> <<...>>],          *)
(* [undefined |-> TRUE].                                                   *)
(***************************************************************************)
EXTENDS Integers, Sequences, FiniteSets, TLC

\* ------------------------------------------------------------------ values

Undefined == [undefined |-> TRUE]
Str(s) == [str |-> s]
Num(n) == [num |-> n]
NaN == [nan |-> TRUE]
Bool(b) == [bool |-> b]
List(l) == [list |-> l]

IsUndefined(v) == "undefined" \in DOMAIN v
IsStr(v) == "str" \in DOMAIN v
IsNum(v) == "num" \in DOMAIN v
IsList(v) == "list" \in DOMAIN v

\* -------------------------------------------------------------- characters

UpperChars == <<"A", "B", "C", "D", "E", "F", "G", "H", "I", "J", "K", "L", "M",
                "N", "O", "P", "Q", "R", "S", "T", "U", "V", "W", "X", "Y", "Z">>
LowerChars == <<"a", "b", "c", "d", "e", "f", "g", "h", "i", "j", "k", "l", "m",
                "n", "o", "p", "q", "r", "s", "t", "u", "v", "w", "x", "y", "z">>
DigitChars == <<"0", "1", "2", "3", "4", "5", "6", "7", "8", "9">>

Range(s) == {s[i] : i \in DOMAIN s}

\* \p{Lu}, \p{Ll} and \d on the characters the model uses (ASCII).
IsUpper(c) == c \in Range(UpperChars)
IsLower(c) == c \in Range(LowerChars)
IsDigit(c) == c \in Range(DigitChars)
\* \w of a regular expression without the u flag: [A-Za-z0-9_]
IsWord(c) == IsUpper(c) \/ IsLower(c) \/ IsDigit(c) \/ c = "_"

\* String.prototype.toLowerCase, one character
LowerOf(c) ==
    IF IsUpper(c)
    THEN LowerChars[CHOOSE i \in DOMAIN UpperChars : UpperChars[i] = c]
    ELSE c

toLowerCase(s) == [i \in DOMAIN s |-> LowerOf(s[i])]

\* [\d_\p{Ll}]
IsTailChar(c) == IsDigit(c) \/ c = "_" \/ IsLower(c)
\* [\w-]
IsNameChar(c) == IsWord(c) \/ c = "-"

\* The length of the longest run of \p{Lu}, of [\d_\p{Ll}], of [\w-] and of
\* \w that starts at s[i] (a greedy + or *).
RECURSIVE UpperRun(_, _)
UpperRun(s, i) ==
    IF i > Len(s) \/ ~IsUpper(s[i]) THEN 0 ELSE 1 + UpperRun(s, i + 1)

RECURSIVE TailRun(_, _)
TailRun(s, i) ==
    IF i > Len(s) \/ ~IsTailChar(s[i]) THEN 0 ELSE 1 + TailRun(s, i + 1)

RECURSIVE NameRun(_, _)
NameRun(s, i) ==
    IF i > Len(s) \/ ~IsNameChar(s[i]) THEN 0 ELSE 1 + NameRun(s, i + 1)

RECURSIVE WordRun(_, _)
WordRun(s, i) ==
    IF i > Len(s) \/ ~IsWord(s[i]) THEN 0 ELSE 1 + WordRun(s, i + 1)

\* --------------------------------------------------------------- toCliArg

\* k.replace(/(?<=.)(\p{Lu}+$|\p{Lu}+(?=\p{Lu}[\d_\p{Ll}]*)|\p{Lu}[\d_\p{Ll}]*)/gu,
\*           (a, $1) => `-${$1.toLowerCase()}`), scanning from position i.
\* At a position with a character before it and an upper-case character at it:
\*   1st alternative: the upper-case run reaches the end of the string;
\*   2nd alternative: the run is two or more long: all of it but its last
\*     character (the lookahead needs one upper-case character);
\*   3rd alternative: one upper-case character and the [\d_\p{Ll}]* after it.
RECURSIVE ReplaceFrom(_, _)
ReplaceFrom(k, i) ==
    IF i > Len(k) THEN <<>>
    ELSE IF i >= 2 /\ IsUpper(k[i])
    THEN LET r == UpperRun(k, i)
             t == TailRun(k, i + 1)
         IN  IF i + r - 1 = Len(k)
             THEN <<"-">> \o toLowerCase(SubSeq(k, i, Len(k)))
             ELSE IF r >= 2
             THEN <<"-">> \o toLowerCase(SubSeq(k, i, i + r - 2))
                     \o ReplaceFrom(k, i + r - 1)
             ELSE <<"-">> \o toLowerCase(SubSeq(k, i, i + t))
                     \o ReplaceFrom(k, i + 1 + t)
    ELSE <<k[i]>> \o ReplaceFrom(k, i + 1)

toCliArg(k) == <<"-", "-">> \o ReplaceFrom(k, 1)

\* ------------------------------------------------------------ token classes

\* LongOption: the source passes the captured name and the capture "=value";
\* the class gives the spelling looked up in the name table (key) and the
\* inline value.
LongOption(name, value, arg) ==
    [kind |-> "LongOption",
     key |-> <<"-", "-">> \o name,
     value |-> IF IsUndefined(value) THEN Undefined ELSE Str(Tail(value.str)),
     literalArgument |-> arg]

\* ShortOptions: next() yields the option codes one by one; rest is what
\* follows the code last yielded.
ShortOptions(shortOpts, arg) ==
    [kind |-> "ShortOptions", shortOpts |-> shortOpts, literalArgument |-> arg]

AbortProcessingSymbol(arg) ==
    [kind |-> "AbortProcessingSymbol", literalArgument |-> arg]

LiteralArgument(arg) ==
    [kind |-> "LiteralArgument", literalArgument |-> arg]

\* ----------------------------------------------------------------- parseArg

\* arg.match(/^--([\w-]+)(=(.*))?/): md[1] is the longest run of [\w-] after
\* the two dashes, md[2] is "=..." to the end when "=" follows the run (the
\* expression is not anchored at the end: other text after the run is ignored).
LongMatch(arg) ==
    Len(arg) >= 3 /\ arg[1] = "-" /\ arg[2] = "-" /\ IsNameChar(arg[3])

\* arg.match(/^-(\w.*)/)
ShortMatch(arg) ==
    Len(arg) >= 2 /\ arg[1] = "-" /\ IsWord(arg[2])

\* The long-option expression with \w+ for [\w-]+: the name stops at a hyphen.
parseArgWordName(arg) ==
    IF LongMatch(arg)
    THEN LET n == WordRun(arg, 3)
         IN  LongOption(SubSeq(arg, 3, 2 + n),
                        IF Len(arg) > 2 + n /\ arg[3 + n] = "="
                        THEN Str(SubSeq(arg, 3 + n, Len(arg)))
                        ELSE Undefined,
                        arg)
    ELSE IF ShortMatch(arg)
    THEN ShortOptions(SubSeq(arg, 2, Len(arg)), arg)
    ELSE IF arg = <<"-", "-">>
    THEN AbortProcessingSymbol(arg)
    ELSE LiteralArgument(arg)

parseArg(arg) ==
    IF LongMatch(arg)
    THEN LET n == NameRun(arg, 3)
         IN  LongOption(SubSeq(arg, 3, 2 + n),
                        IF Len(arg) > 2 + n /\ arg[3 + n] = "="
                        THEN Str(SubSeq(arg, 3 + n, Len(arg)))
                        ELSE Undefined,
                        arg)
    ELSE IF ShortMatch(arg)
    THEN ShortOptions(SubSeq(arg, 2, Len(arg)), arg)
    ELSE IF arg = <<"-", "-">>
    THEN AbortProcessingSymbol(arg)
    ELSE LiteralArgument(arg)


\* ---------------------------------------------------------------- numbers

RECURSIVE DigitsValue(_)
DigitsValue(s) ==
    IF s = <<>> THEN 0
    ELSE 10 * DigitsValue(SubSeq(s, 1, Len(s) - 1))
         + (CHOOSE d \in 0..9 : DigitChars[d + 1] = s[Len(s)])

AllDigits(s) == s # <<>> /\ \A i \in DOMAIN s : IsDigit(s[i])

\* The unary plus of the source (+v) on a string of the model's characters:
\* decimal digits with an optional minus sign convert, the empty string is 0,
\* any other text is NaN.  (The argument pools hold no ".", "e", "x" or blank
\* next to a digit, where JavaScript's conversion accepts more.)
ToNumber(s) ==
    IF s = <<>> THEN Num(0)
    ELSE IF AllDigits(s) THEN Num(DigitsValue(s))
    ELSE IF s[1] = "-" /\ AllDigits(Tail(s)) THEN Num(0 - DigitsValue(Tail(s)))
    ELSE NaN

\* Number.isNaN(v): true of the number NaN alone, false of every string.
NumberIsNaN(v) == "nan" \in DOMAIN v

\* ------------------------------------------------------------------ errors

\* OptErrorCode: the reserved structural codes, by name.
OptErrorCode(name) == [errorCode |-> name]

\* new OptError(message, code).  A message is its fixed text, the value
\* interpolated into it, and the usage string when the text embeds one.
OptError(text, arg, help, code) ==
    [text |-> text, arg |-> arg, help |-> help, code |-> code]

NoError == [none |-> TRUE]
IsError(e) == "text" \in DOMAIN e

\* ---------------------------------------------------------------- wrappers

\* OptWrapper: type, many, required, alias (single characters), def.
Wrapper(type, many, required, alias, def) ==
    [type |-> type, many |-> many, required |-> required, alias |-> alias,
     def |-> def]

\* One entry of Object.entries(options) or Object.entries(positional).
Entry(name, opt) == [name |-> name, opt |-> opt]

\* this.options[cName] / this.positional[name]: the wrapper, or undefined
Lookup(entries, name) ==
    IF \E i \in DOMAIN entries : entries[i].name = name
    THEN entries[CHOOSE i \in DOMAIN entries : entries[i].name = name].opt
    ELSE Undefined

\* ------------------------------------------------------ assertValidOptions

\* The scan without the branch that records an optional single positional
\* (else if (!v.required) seenVariablePositional = true).
RECURSIVE ValidateIgnoringOptional(_, _, _, _)
ValidateIgnoringOptional(positional, i, seenVariablePositional, seenMultiPositional) ==
    IF i > Len(positional) THEN "ok"
    ELSE LET v == positional[i].opt
         IN  IF seenVariablePositional /\ v.required
             THEN "Required positional arguments provided after optional positional arguments"
             ELSE IF seenMultiPositional
             THEN "Arguments provided after spread positional arguments"
             ELSE IF v.many
             THEN ValidateIgnoringOptional(positional, i + 1, TRUE, TRUE)
             ELSE ValidateIgnoringOptional(positional, i + 1, seenVariablePositional,
                                           seenMultiPositional)

\* The scan of Object.values(options.positional) from entry i with the two
\* flags of the source; "ok" or the message of the Error thrown.
RECURSIVE ValidateFrom(_, _, _, _)
ValidateFrom(positional, i, seenVariablePositional, seenMultiPositional) ==
    IF i > Len(positional) THEN "ok"
    ELSE LET v == positional[i].opt
         IN  IF seenVariablePositional /\ v.required
             THEN "Required positional arguments provided after optional positional arguments"
             ELSE IF seenMultiPositional
             THEN "Arguments provided after spread positional arguments"
             ELSE IF v.many
             THEN ValidateFrom(positional, i + 1, TRUE, TRUE)
             ELSE IF ~v.required
             THEN ValidateFrom(positional, i + 1, TRUE, seenMultiPositional)
             ELSE ValidateFrom(positional, i + 1, seenVariablePositional,
                               seenMultiPositional)

assertValidOptions(options) ==
    ValidateFrom(options.positional, 1, FALSE, FALSE)

\* ------------------------------------------------------------ name tables

\* knownShortOpts[a]: the entry of the last option, in declaration order, that
\* lists the alias a (a later assignment overwrites an earlier one).
knownShortOpts(options, a) ==
    LET S == {i \in DOMAIN options :
                 \E j \in DOMAIN options[i].opt.alias : options[i].opt.alias[j] = a}
    IN  IF S = {} THEN Undefined
        ELSE LET i == CHOOSE m \in S : \A n \in S : n <= m
             IN  [canonicalName |-> options[i].name, opt |-> options[i].opt]

\* cNames[key]: Object.fromEntries keeps the last entry of a repeated key.
cNames(options, key) ==
    LET S == {i \in DOMAIN options : toCliArg(options[i].name) = key}
    IN  IF S = {} THEN Undefined
        ELSE Str(options[CHOOSE m \in S : \A n \in S : n <= m].name)

\* ------------------------------------------------------------------- Opts

\* new Opts(options, positional): nothing is set.
Keys(options) ==
    {options.options[i].name : i \in DOMAIN options.options}
        \cup {options.positional[i].name : i \in DOMAIN options.positional}

NewOpts(options) == [k \in Keys(options) |-> Undefined]

\* addOptArg / addPositionArg: a multiplicity entry collects, a scalar is set.
AddArg(acc, name, opt, value) ==
    IF opt.many
    THEN [acc EXCEPT ![name] =
            IF IsUndefined(@) THEN List(<<value>>) ELSE List(Append(@.list, value))]
    ELSE [acc EXCEPT ![name] = value]

addOptArg(options, acc, name, value) ==
    AddArg(acc, name, Lookup(options.options, name), value)

addPositionArg(options, acc, name, value) ==
    AddArg(acc, name, Lookup(options.positional, name), value)

\* opts.values: an unset multiplicity entry is the empty sequence, an unset
\* scalar its default (undefined without one).
WrapperOf(options, name) ==
    IF IsUndefined(Lookup(options.options, name))
    THEN Lookup(options.positional, name)
    ELSE Lookup(options.options, name)

Values(options, acc) ==
    [k \in DOMAIN acc |->
        IF ~IsUndefined(acc[k]) THEN acc[k]
        ELSE IF WrapperOf(options, k).many THEN List(<<>>)
        ELSE WrapperOf(options, k).def]

\* JavaScript truthiness of a value
Truthy(v) ==
    IF "bool" \in DOMAIN v THEN v.bool
    ELSE IF IsNum(v) THEN v.num # 0
    ELSE IF IsStr(v) THEN v.str # <<>>
    ELSE IF IsList(v) THEN TRUE
    ELSE FALSE

\* ------------------------------------------------------------- helpMessage

RECURSIVE Join(_, _)
Join(parts, sep) ==
    IF parts = <<>> THEN <<>>
    ELSE IF Len(parts) = 1 THEN parts[1]
    ELSE parts[1] \o sep \o Join(Tail(parts), sep)

TypeChars(type) ==
    CASE type = "boolean" -> <<"b", "o", "o", "l", "e", "a", "n">>
      [] type = "number" -> <<"n", "u", "m", "b", "e", "r">>
      [] type = "string" -> <<"s", "t", "r", "i", "n", "g">>

\* `${n}` of a number the model uses as a default (a natural number)
RECURSIVE NumChars(_)
NumChars(n) ==
    IF n < 10 THEN <<DigitChars[n + 1]>>
    ELSE NumChars(n \div 10) \o <<DigitChars[(n % 10) + 1]>>

DefChars(def) == IF IsStr(def) THEN def.str ELSE NumChars(def.num)

optionalise(o, config) ==
    IF config.required
    THEN IF config.many THEN o \o <<" ", "[">> \o o \o <<"]", ".", ".", ".">> ELSE o
    ELSE IF config.many THEN <<"[">> \o o \o <<"]", ".", ".", ".">>
         ELSE <<"[">> \o o \o <<"]">>

\* a.localeCompare(b) on the model's characters, as the root collation orders
\* them: punctuation, then "$", then digits, then letters; the case of a
\* letter counts only between strings that are otherwise equal, lower first.
PrimaryRank(c) ==
    IF c = "_" THEN 1
    ELSE IF c = "-" THEN 2
    ELSE IF c = "$" THEN 3
    ELSE IF IsDigit(c) THEN 10 + (CHOOSE d \in 0..9 : DigitChars[d + 1] = c)
    ELSE 20 + (CHOOSE i \in DOMAIN LowerChars : LowerChars[i] = LowerOf(c))

RECURSIVE ComparePrimary(_, _, _)
ComparePrimary(a, b, i) ==
    IF i > Len(a) /\ i > Len(b) THEN 0
    ELSE IF i > Len(a) THEN 0 - 1
    ELSE IF i > Len(b) THEN 1
    ELSE IF PrimaryRank(a[i]) < PrimaryRank(b[i]) THEN 0 - 1
    ELSE IF PrimaryRank(a[i]) > PrimaryRank(b[i]) THEN 1
    ELSE ComparePrimary(a, b, i + 1)

\* Between strings equal but for case (of one length): lower case first.
RECURSIVE CompareCase(_, _, _)
CompareCase(a, b, i) ==
    IF i > Len(a) THEN 0
    ELSE IF ~IsUpper(a[i]) /\ IsUpper(b[i]) THEN 0 - 1
    ELSE IF IsUpper(a[i]) /\ ~IsUpper(b[i]) THEN 1
    ELSE CompareCase(a, b, i + 1)

localeCompare(a, b) ==
    IF ComparePrimary(a, b, 1) # 0 THEN ComparePrimary(a, b, 1)
    ELSE CompareCase(a, b, 1)

\* The comparator of the sort: (+!!ac.required - +!!bc.required) || a.localeCompare(b)
OptionOrder(x, y) ==
    LET d == (IF x.opt.required THEN 1 ELSE 0) - (IF y.opt.required THEN 1 ELSE 0)
    IN  IF d # 0 THEN d ELSE localeCompare(x.name, y.name)

\* Array.prototype.sort (stable), by insertion
RECURSIVE InsertSorted(_, _)
InsertSorted(sorted, e) ==
    IF sorted = <<>> THEN <<e>>
    ELSE IF OptionOrder(sorted[Len(sorted)], e) <= 0 THEN Append(sorted, e)
    ELSE Append(InsertSorted(SubSeq(sorted, 1, Len(sorted) - 1), e),
                sorted[Len(sorted)])

RECURSIVE SortEntries(_)
SortEntries(entries) ==
    IF entries = <<>> THEN <<>>
    ELSE InsertSorted(SortEntries(SubSeq(entries, 1, Len(entries) - 1)),
                      entries[Len(entries)])

ArgComponent(e) ==
    LET config == e.opt
        o == Join([i \in DOMAIN config.alias |-> <<"-", config.alias[i]>>]
                      \o <<toCliArg(e.name)>>, <<"|">>)
        typed == IF config.type # "boolean"
                 THEN IF Truthy(config.def)
                      THEN o \o <<" ", "<">> \o TypeChars(config.type)
                             \o <<" ", "=", " ">> \o DefChars(config.def) \o <<">">>
                      ELSE o \o <<" ", "<">> \o TypeChars(config.type) \o <<">">>
                 ELSE o
    IN  optionalise(typed, config)

helpMessage(options) ==
    LET sorted == SortEntries(options.options)
        argComponents == [i \in DOMAIN sorted |-> ArgComponent(sorted[i])]
        positional == [i \in DOMAIN options.positional |->
                          optionalise(<<"<">> \o options.positional[i].name \o <<">">>,
                                      options.positional[i].opt)]
        components == <<options.name>> \o argComponents \o positional
    IN  <<"U", "s", "a", "g", "e", ":", " ">> \o Join(components, <<" ">>)

\* ------------------------------------------------------------- getArgValue

\* getArgValue(key, opt, getExplicitValue, value): explicit is what a call of
\* getExplicitValue() yields (undefined when nothing is left); `called` says
\* whether the call was made, so that the caller consumes what it took.
getArgValue(key, opt, explicit, value) ==
    CASE opt.type = "boolean" ->
            IF ~IsUndefined(value)
            THEN [value |-> Undefined, called |-> FALSE,
                  error |-> OptError("Error: Argument supplied for boolean option",
                                     key, Undefined, OptErrorCode("noValuePermitted"))]
            ELSE [value |-> Bool(TRUE), called |-> FALSE, error |-> NoError]
      [] opt.type = "number" ->
            LET called == IsUndefined(value)
                v == IF called THEN explicit ELSE value
            IN  IF IsUndefined(v)
                THEN [value |-> Undefined, called |-> called,
                      error |-> OptError("Error: Option required an argument",
                                         key, Undefined, OptErrorCode("valueRequired"))]
                ELSE IF NumberIsNaN(v)
                THEN [value |-> Undefined, called |-> called,
                      error |-> OptError("Error: Argument must be numeric for",
                                         key, Undefined, OptErrorCode("invalidValue"))]
                ELSE [value |-> ToNumber(v.str), called |-> called, error |-> NoError]
      [] opt.type = "string" ->
            LET called == IsUndefined(value)
                v == IF called THEN explicit ELSE value
            IN  IF IsUndefined(v)
                THEN [value |-> Undefined, called |-> called,
                      error |-> OptError("Error: Option required an argument",
                                         key, Undefined, OptErrorCode("valueRequired"))]
                ELSE [value |-> v, called |-> called, error |-> NoError]

\* ----------------------------------------------------- getPositionArgValue

getPositionArgValue(key, opt, value) ==
    CASE opt.type = "boolean" ->
            IF value \in {<<"0">>, <<"f", "a", "l", "s", "e">>}
            THEN [value |-> Bool(FALSE), error |-> NoError]
            ELSE IF value \in {<<"1">>, <<"t", "r", "u", "e">>}
            THEN [value |-> Bool(TRUE), error |-> NoError]
            ELSE [value |-> Undefined,
                  error |-> OptError("Error: Only 0, 1, true or false are supported for boolean",
                                     key, Undefined, OptErrorCode("invalidValue"))]
      [] opt.type = "number" ->
            IF NumberIsNaN(Str(value))
            THEN [value |-> Undefined,
                  error |-> OptError("Error: Argument must be numeric for",
                                     key, Undefined, OptErrorCode("invalidValue"))]
            ELSE [value |-> ToNumber(value), error |-> NoError]
      [] opt.type = "string" ->
            [value |-> Str(value), error |-> NoError]

\* ------------------------------------------- fromProgramArgs: option scan

Step(acc, mArgs, error) == [acc |-> acc, mArgs |-> mArgs, error |-> error]

\* The long-option branch of the loop; rest is mArgs after the shift of arg.
LongOptionStep(options, acc, parsed, rest) ==
    LET cName == cNames(options.options, parsed.key)
        opt == IF IsUndefined(cName) THEN Undefined
               ELSE Lookup(options.options, cName.str)
    IN  IF IsUndefined(opt)
        THEN Step(acc, rest,
                  OptError("Error: Unrecognised long option", parsed.key, Undefined,
                           OptErrorCode("unrecognised")))
        ELSE LET r == getArgValue(parsed.key, opt,
                                  IF rest = <<>> THEN Undefined ELSE Str(Head(rest)),
                                  parsed.value)
                 left == IF r.called /\ rest # <<>> THEN Tail(rest) ELSE rest
             IN  IF IsError(r.error) THEN Step(acc, left, r.error)
                 ELSE Step(addOptArg(options, acc, cName.str, r.value), left, NoError)

\* The short-option branch: the inner loop over the option codes of the
\* cluster, from code i.  An option that takes a value takes the rest of the
\* cluster when there is one, the next argument otherwise.
RECURSIVE ShortOptionsLoop(_, _, _, _, _)
ShortOptionsLoop(options, acc, parsed, i, rest) ==
    IF i > Len(parsed.shortOpts) THEN Step(acc, rest, NoError)
    ELSE LET optionCode == parsed.shortOpts[i]
             config == knownShortOpts(options.options, optionCode)
             restOfCluster == SubSeq(parsed.shortOpts, i + 1, Len(parsed.shortOpts))
         IN  IF IsUndefined(config)
             THEN Step(acc, rest,
                       OptError("Error: Unrecognised short option", <<optionCode>>,
                                Undefined, OptErrorCode("unrecognised")))
             ELSE LET r == getArgValue(<<optionCode>>, config.opt,
                                       IF restOfCluster # <<>> THEN Str(restOfCluster)
                                       ELSE IF rest = <<>> THEN Undefined
                                       ELSE Str(Head(rest)),
                                       Undefined)
                      fromCluster == r.called /\ restOfCluster # <<>>
                      left == IF r.called /\ ~fromCluster /\ rest # <<>>
                              THEN Tail(rest) ELSE rest
                  IN  IF IsError(r.error) THEN Step(acc, left, r.error)
                      ELSE ShortOptionsLoop(
                               options,
                               addOptArg(options, acc, config.canonicalName, r.value),
                               parsed,
                               IF fromCluster THEN Len(parsed.shortOpts) + 1 ELSE i + 1,
                               left)

\* ------------------------------------- fromProgramArgs: positional phases

Phase(acc, positional, seen, error) ==
    [acc |-> acc, positional |-> positional, seen |-> seen, error |-> error]

\* The required-argument error built from the message alone, as the errors of
\* getArgValue are.
RequiredErrorWithoutHelp(options, name) ==
    OptError("Argument is required.", name, Undefined, OptErrorCode("required"))

RequiredError(options, name) ==
    OptError("Argument is required.", name, Str(helpMessage(options)),
             OptErrorCode("required"))

\* 1. Required single args at the start
RECURSIVE RequiredAtStart(_, _, _, _, _)
RequiredAtStart(options, i, acc, positional, seen) ==
    IF i > Len(options.positional) THEN Phase(acc, positional, seen, NoError)
    ELSE LET name == options.positional[i].name
             opt == options.positional[i].opt
         IN  IF opt.many \/ ~opt.required THEN Phase(acc, positional, seen, NoError)
             ELSE IF positional = <<>>
             THEN Phase(acc, positional, seen \cup {name}, RequiredError(options, name))
             ELSE LET r == getPositionArgValue(name, opt, Head(positional))
                  IN  IF IsError(r.error)
                      THEN Phase(acc, Tail(positional), seen \cup {name}, r.error)
                      ELSE RequiredAtStart(options, i + 1,
                                           addPositionArg(options, acc, name, r.value),
                                           Tail(positional), seen \cup {name})

\* 2. Required single args at the end (the entries reversed: from the last)
RECURSIVE RequiredAtEnd(_, _, _, _, _)
RequiredAtEnd(options, i, acc, positional, seen) ==
    IF i < 1 THEN Phase(acc, positional, seen, NoError)
    ELSE LET name == options.positional[i].name
             opt == options.positional[i].opt
             front == SubSeq(positional, 1, Len(positional) - 1)
         IN  IF opt.many \/ ~opt.required THEN Phase(acc, positional, seen, NoError)
             ELSE IF name \in seen THEN Phase(acc, positional, seen, NoError)
             ELSE IF positional = <<>>
             THEN Phase(acc, positional, seen \cup {name}, RequiredError(options, name))
             ELSE LET r == getPositionArgValue(name, opt, positional[Len(positional)])
                  IN  IF IsError(r.error)
                      THEN Phase(acc, front, seen \cup {name}, r.error)
                      ELSE RequiredAtEnd(options, i - 1,
                                         addPositionArg(options, acc, name, r.value),
                                         front, seen \cup {name})

\* The inner loop of a multiplicity entry: every token left, in order.
RECURSIVE AddEach(_, _, _, _, _)
AddEach(options, name, opt, acc, tokens) ==
    IF tokens = <<>> THEN [acc |-> acc, error |-> NoError]
    ELSE LET r == getPositionArgValue(name, opt, Head(tokens))
         IN  IF IsError(r.error) THEN [acc |-> acc, error |-> r.error]
             ELSE AddEach(options, name, opt,
                          addPositionArg(options, acc, name, r.value), Tail(tokens))

\* Phase 3 taking each token from the back of the list (pop for shift).
RECURSIVE EverythingElseFromBack(_, _, _, _, _)
EverythingElseFromBack(options, i, acc, positional, seen) ==
    IF i > Len(options.positional) THEN Phase(acc, positional, seen, NoError)
    ELSE LET name == options.positional[i].name
             opt == options.positional[i].opt
             front == SubSeq(positional, 1, Len(positional) - 1)
         IN  IF name \in seen
             THEN EverythingElseFromBack(options, i + 1, acc, positional, seen)
             ELSE IF positional = <<>>
             THEN IF opt.required
                  THEN Phase(acc, positional, seen, RequiredError(options, name))
                  ELSE EverythingElseFromBack(options, i + 1, acc, positional, seen)
             ELSE LET r == getPositionArgValue(name, opt, positional[Len(positional)])
                      first == addPositionArg(options, acc, name, r.value)
                      more == AddEach(options, name, opt, first, front)
                  IN  IF IsError(r.error)
                      THEN Phase(acc, front, seen, r.error)
                      ELSE IF ~opt.many
                      THEN EverythingElseFromBack(options, i + 1, first, front, seen)
                      ELSE IF IsError(more.error)
                      THEN Phase(more.acc, front, seen, more.error)
                      ELSE EverythingElseFromBack(options, i + 1, more.acc, <<>>, seen)

\* 3. Everything else
RECURSIVE EverythingElse(_, _, _, _, _)
EverythingElse(options, i, acc, positional, seen) ==
    IF i > Len(options.positional) THEN Phase(acc, positional, seen, NoError)
    ELSE LET name == options.positional[i].name
             opt == options.positional[i].opt
         IN  IF name \in seen
             THEN EverythingElse(options, i + 1, acc, positional, seen)
             ELSE IF positional = <<>>
             THEN IF opt.required
                  THEN Phase(acc, positional, seen, RequiredError(options, name))
                  ELSE EverythingElse(options, i + 1, acc, positional, seen)
             ELSE LET r == getPositionArgValue(name, opt, Head(positional))
                      first == addPositionArg(options, acc, name, r.value)
                      more == AddEach(options, name, opt, first, Tail(positional))
                  IN  IF IsError(r.error)
                      THEN Phase(acc, Tail(positional), seen, r.error)
                      ELSE IF ~opt.many
                      THEN EverythingElse(options, i + 1, first, Tail(positional), seen)
                      ELSE IF IsError(more.error)
                      THEN Phase(more.acc, Tail(positional), seen, more.error)
                      ELSE EverythingElse(options, i + 1, more.acc, <<>>, seen)

\* The surplus check naming the last token left, not the first.
TooManyErrorNamingLast(options, positional) ==
    OptError("Too many arguments at:", positional[Len(positional)],
             Str(helpMessage(options)), OptErrorCode("unrecognised"))

\* The surplus check: the message names positional[0].
TooManyError(options, positional) ==
    OptError("Too many arguments at:", positional[1], Str(helpMessage(options)),
             OptErrorCode("unrecognised"))

\* -------------------------------------------- fromProgramArgs: conditions

\* let code = 64 // Higher than highest value in OptErrorCode
ConditionCodeBase == 64

\* The predicates callers supply, by name, over the value map.
Holds(values, key) == key \in DOMAIN values /\ Truthy(values[key])

Test(test, values) ==
    CASE test = "always" -> TRUE
      [] test = "never" -> FALSE
      [] test = "verbose" -> Holds(values, <<"v", "e", "r", "b", "o", "s", "e">>)
      [] test = "noNum" ->
            ~Holds(values, <<"n", "u", "m">>)

\* The error of a failed condition carrying the base code, whatever its index.
ConditionErrorBaseCode(options, name, code) ==
    OptError("Condition failed:", name, Str(helpMessage(options)),
             [num |-> ConditionCodeBase])

ConditionError(options, name, code) ==
    OptError("Condition failed:", name, Str(helpMessage(options)), [num |-> code])

\* ------------------------------------------------------------------ bounds

\* The most positional specs a handler of the positional family declares.
MaxPositional == 4
\* The most arguments (literal tokens) passed to a handler of that family.
MaxArgs == 5
\* The most arguments passed to a handler that declares options.
MaxOptArgs == 3
\* The most options a handler of the naming family declares.
MaxOptions == 2

SeqsUpTo(S, n) == UNION {[1..m -> S] : m \in 0..n}

\* ---------------------------------------------------------------- handlers

\* OptWrappers.req / OptWrappers.opt, by type ("string[]": many)
Req(type, many, alias) == Wrapper(type, many, TRUE, alias, Undefined)
Opt(type, many, alias) == Wrapper(type, many, FALSE, alias, Undefined)

HandlerOptions(options, positional, help, conditions) ==
    [options |-> options, positional |-> positional, help |-> help,
     conditions |-> conditions, name |-> <<"p">>]

\* The positional family: every ordering of up to MaxPositional string
\* positionals a, b, c, ..., each required or optional, single or many.
WrapperKinds ==
    {Req("string", FALSE, <<>>), Opt("string", FALSE, <<>>),
     Req("string", TRUE, <<>>), Opt("string", TRUE, <<>>)}

PositionalHandlers ==
    {HandlerOptions(<<>>, [i \in DOMAIN shape |-> Entry(<<LowerChars[i]>>, shape[i])],
                    Undefined, <<>>) :
        shape \in SeqsUpTo(WrapperKinds, MaxPositional)}

PositionalArgs == SeqsUpTo({<<"x">>, <<"y">>}, MaxArgs)

\* The option family: a help flag, a number option and a flag, with one
\* positional (or none) and conditions.
n_help == <<"h", "e", "l", "p">>
n_num == <<"n", "u", "m">>
n_verbose == <<"v", "e", "r", "b", "o", "s", "e">>
n_file == <<"f", "i", "l", "e">>
n_count == <<"c", "o", "u", "n", "t">>
n_rest == <<"r", "e", "s", "t">>
n_flag == <<"f", "l", "a", "g">>

CliOptions ==
    <<Entry(n_help, Opt("boolean", FALSE, <<"h">>)),
      Entry(n_num, Opt("number", FALSE, <<"n">>)),
      Entry(n_verbose, Opt("boolean", FALSE, <<"v">>))>>

Condition(name, test) == [name |-> name, test |-> test]

OptionHandlers ==
    {HandlerOptions(CliOptions, <<>>, Str(n_help), <<>>),
     HandlerOptions(CliOptions, <<Entry(n_file, Req("string", FALSE, <<>>))>>,
                    Str(n_help), <<Condition(<<"c">>, "never")>>),
     HandlerOptions(CliOptions, <<Entry(n_count, Opt("number", FALSE, <<>>))>>,
                    Str(n_help),
                    <<Condition(<<"c">>, "verbose"), Condition(<<"d">>, "noNum")>>),
     HandlerOptions(CliOptions, <<Entry(n_rest, Opt("string", TRUE, <<>>))>>,
                    Str(n_help),
                    <<Condition(<<"c">>, "always"), Condition(<<"d">>, "verbose"),
                      Condition(<<"e">>, "never")>>),
     HandlerOptions(CliOptions, <<Entry(n_rest, Opt("string", TRUE, <<>>))>>,
                    Undefined, <<>>),
     HandlerOptions(CliOptions, <<Entry(n_flag, Req("boolean", FALSE, <<>>))>>,
                    Str(n_help), <<Condition(<<"c">>, "never")>>)}

OptionTokens ==
    {<<"-", "-", "h", "e", "l", "p">>,
     <<"-", "-", "h", "e", "l", "p", "=", "1">>,
     <<"-", "v">>,
     <<"-", "v", "n", "7">>,
     <<"-", "-", "n", "u", "m">>,
     <<"-", "-", "n", "u", "m", "=", "x">>,
     <<"-", "-", "b", "o", "g", "u", "s">>,
     <<"x">>,
     <<"1">>,
     <<"-", "-">>}

OptionArgs == SeqsUpTo(OptionTokens, MaxOptArgs)

\* The naming family: up to MaxOptions flags whose identifiers are drawn from
\* a pool with capitals, digits, hyphens and a character outside [\w-]; the
\* argument is the spelling toCliArg derives from an identifier of the pool.
Identifiers ==
    {<<"a">>, <<"a", "B">>, <<"a", "-", "b">>, <<"a", "B", "C">>, <<"a", "B", "c">>,
     <<"a", "$">>, <<"A", "b">>, <<"a", "B", "2", "C", "d">>}

Distinct(s) == \A i, j \in DOMAIN s : i # j => s[i] # s[j]

NamingHandlers ==
    {HandlerOptions([i \in DOMAIN ids |-> Entry(ids[i], Opt("boolean", FALSE, <<>>))],
                    <<>>, Undefined, <<>>) :
        ids \in {s \in SeqsUpTo(Identifiers, MaxOptions) : s # <<>> /\ Distinct(s)}}

NamingArgs == {<<toCliArg(k)>> : k \in Identifiers}

\* The alias family: two flags and the aliases they list.
n_alpha == <<"a", "l", "p", "h", "a">>
n_beta == <<"b", "e", "t", "a">>

AliasHandlers ==
    {HandlerOptions(<<Entry(n_alpha, Opt("boolean", FALSE, al)),
                      Entry(n_beta, Opt("boolean", FALSE, be))>>,
                    <<>>, Undefined, <<>>) :
        al \in {<<"a">>, <<"a", "b">>}, be \in {<<"a">>, <<"b">>}}

AliasArgs == SeqsUpTo({<<"-", "a">>, <<"-", "b">>, <<"-", "b", "a">>}, 1)

Handlers == PositionalHandlers \cup OptionHandlers \cup NamingHandlers \cup AliasHandlers

\* The argument lists a handler is called with.
ArgsFor(h) ==
    IF h \in OptionHandlers THEN OptionArgs
    ELSE IF h \in NamingHandlers THEN NamingArgs
    ELSE IF h \in AliasHandlers THEN AliasArgs
    ELSE PositionalArgs

\* ------------------------------------------------------------------- state

VARIABLES
    handlerOptions, \* the options the constructor is given, then the handler's fields
    pc,             \* where the handler is: new, constructed, the phase of fromProgramArgs, its end
    args,           \* the args of the call of fromProgramArgs
    mArgs,          \* the arguments not yet shifted
    parsed,         \* the token parseArg returned last
    opts,           \* the Opts accumulator
    positional,     \* the positional tokens not yet assigned
    seen,           \* the names of the positionals the required runs bound
    code,           \* the code of the condition tested next
    outcome         \* what the call ended with: the value map, an OptError, an OptHelpExit, an Error

vars == <<handlerOptions, pc, args, mArgs, parsed, opts, positional, seen, code, outcome>>

Init ==
    /\ handlerOptions \in Handlers
    /\ pc = "new"
    /\ args = <<>>
    /\ mArgs = <<>>
    /\ parsed = Undefined
    /\ opts = <<>>
    /\ positional = <<>>
    /\ seen = {}
    /\ code = ConditionCodeBase
    /\ outcome = NoError

\* new OptHandler(options, name)
Constructor ==
    /\ pc = "new"
    /\ IF assertValidOptions(handlerOptions) = "ok"
       THEN pc' = "constructed" /\ outcome' = outcome
       ELSE pc' = "Error" /\ outcome' = [configError |-> assertValidOptions(handlerOptions)]
    /\ UNCHANGED <<handlerOptions, args, mArgs, parsed, opts, positional, seen, code>>

\* fromProgramArgs(args), to the head of the scanning loop
FromProgramArgs ==
    /\ pc = "constructed"
    /\ \E a \in ArgsFor(handlerOptions) :
          /\ args' = a
          /\ mArgs' = a
    /\ opts' = NewOpts(handlerOptions)
    /\ positional' = <<>>
    /\ pc' = "scan"
    /\ UNCHANGED <<handlerOptions, parsed, seen, code, outcome>>

Throw(error) == pc' = "OptError" /\ outcome' = error

\* The terminator branch pushing the terminator too (positional.push(arg, ...mArgs)).
CollectWithTerminator(buffer, p, rest) ==
    CASE p.kind = "AbortProcessingSymbol" -> Append(buffer, p.literalArgument) \o rest
      [] p.kind = "LiteralArgument" -> Append(buffer, p.literalArgument)
      [] OTHER -> buffer

\* The last two branches of the loop: the terminator pushes every argument
\* left (positional.push(...mArgs)), a literal pushes itself.
CollectPositional(buffer, p, rest) ==
    CASE p.kind = "AbortProcessingSymbol" -> buffer \o rest
      [] p.kind = "LiteralArgument" -> Append(buffer, p.literalArgument)
      [] OTHER -> buffer

\* One iteration of while ((arg = mArgs.shift()) !== undefined)
ScanArg ==
    /\ pc = "scan"
    /\ mArgs # <<>>
    /\ LET arg == Head(mArgs)
           rest == Tail(mArgs)
           p == parseArg(arg)
           step == CASE p.kind = "LongOption" ->
                           LongOptionStep(handlerOptions, opts, p, rest)
                     [] p.kind = "ShortOptions" ->
                           ShortOptionsLoop(handlerOptions, opts, p, 1, rest)
                     [] OTHER -> Step(opts, rest, NoError)
       IN  /\ parsed' = p
           /\ opts' = step.acc
           /\ mArgs' = step.mArgs
           /\ positional' = CollectPositional(positional, p, rest)
           /\ IF IsError(step.error) THEN Throw(step.error)
              ELSE IF p.kind = "AbortProcessingSymbol"
              THEN pc' = "help" /\ outcome' = outcome
              ELSE pc' = "scan" /\ outcome' = outcome
    /\ UNCHANGED <<handlerOptions, args, seen, code>>

\* The loop ends: nothing is left to shift.
ScanEnd ==
    /\ pc = "scan"
    /\ mArgs = <<>>
    /\ pc' = "help"
    /\ UNCHANGED <<handlerOptions, args, mArgs, parsed, opts, positional, seen, code, outcome>>

\* The help check reading the accumulator under the help option's alias
\* instead of its name: the flag is never found set.
HelpRequestedByAlias(options, acc) ==
    /\ ~IsUndefined(options.help)
    /\ Holds(Values(options, acc), <<"h">>)

\* if (helpOption && opts.values[helpOption]) throw new OptHelpExit(this.helpMessage)
HelpRequested(options, acc) ==
    /\ ~IsUndefined(options.help)
    /\ Holds(Values(options, acc), options.help.str)

HelpCheck ==
    /\ pc = "help"
    /\ IF HelpRequested(handlerOptions, opts)
       THEN pc' = "OptHelpExit" /\ outcome' = [helpExit |-> helpMessage(handlerOptions)]
       ELSE pc' = "requiredAtStart" /\ outcome' = outcome
    /\ UNCHANGED <<handlerOptions, args, mArgs, parsed, opts, positional, seen, code>>

\* The end of a phase going on to the next phase whatever the phase found:
\* its error is dropped and a later check reports instead.
PhaseStepDroppingError(phase, next) ==
    /\ opts' = phase.acc
    /\ positional' = phase.positional
    /\ seen' = phase.seen
    /\ pc' = next /\ outcome' = outcome
    /\ UNCHANGED <<handlerOptions, args, mArgs, parsed, code>>

PhaseStep(phase, next) ==
    /\ opts' = phase.acc
    /\ positional' = phase.positional
    /\ seen' = phase.seen
    /\ IF IsError(phase.error) THEN Throw(phase.error)
       ELSE pc' = next /\ outcome' = outcome
    /\ UNCHANGED <<handlerOptions, args, mArgs, parsed, code>>

RequiredAtStartPhase ==
    /\ pc = "requiredAtStart"
    /\ PhaseStep(RequiredAtStart(handlerOptions, 1, opts, positional, {}),
                 "requiredAtEnd")

RequiredAtEndPhase ==
    /\ pc = "requiredAtEnd"
    /\ PhaseStep(RequiredAtEnd(handlerOptions, Len(handlerOptions.positional), opts,
                               positional, seen),
                 "everythingElse")

EverythingElsePhase ==
    /\ pc = "everythingElse"
    /\ PhaseStep(EverythingElse(handlerOptions, 1, opts, positional, seen), "surplus")

\* if (positional.length) throw ...
SurplusCheck ==
    /\ pc = "surplus"
    /\ IF positional # <<>>
       THEN Throw(TooManyError(handlerOptions, positional))
       ELSE pc' = "conditions" /\ outcome' = outcome
    /\ UNCHANGED <<handlerOptions, args, mArgs, parsed, opts, positional, seen, code>>

\* The condition tested next: the one at index code - 64.
NextCondition == code - ConditionCodeBase + 1

\* One iteration of the loop over Object.entries(this.conditions)
ConditionStep ==
    /\ pc = "conditions"
    /\ NextCondition <= Len(handlerOptions.conditions)
    /\ LET c == handlerOptions.conditions[NextCondition]
       IN  IF ~Test(c.test, Values(handlerOptions, opts))
           THEN Throw(ConditionError(handlerOptions, c.name, code)) /\ code' = code
           ELSE pc' = "conditions" /\ outcome' = outcome /\ code' = code + 1
    /\ UNCHANGED <<handlerOptions, args, mArgs, parsed, opts, positional, seen>>

\* return values
Return ==
    /\ pc = "conditions"
    /\ NextCondition > Len(handlerOptions.conditions)
    /\ pc' = "returned"
    /\ outcome' = [values |-> Values(handlerOptions, opts)]
    /\ UNCHANGED <<handlerOptions, args, mArgs, parsed, opts, positional, seen, code>>

Next ==
    \/ Constructor
    \/ FromProgramArgs
    \/ ScanArg
    \/ ScanEnd
    \/ HelpCheck
    \/ RequiredAtStartPhase
    \/ RequiredAtEndPhase
    \/ EverythingElsePhase
    \/ SurplusCheck
    \/ ConditionStep
    \/ Return

Spec == Init /\ [][Next]_vars

\* ------------------------------------------------------------------ claims
Ended == pc \in {"returned", "OptError", "OptHelpExit"}

Single(opt) == ~opt.many

RequiredSingle(opt) == opt.required /\ ~opt.many

\* A variable-length positional: optional single, or any multiplicity.
VariableLength(opt) == opt.many \/ ~opt.required

AllLiteral(a) == \A i \in DOMAIN a : parseArg(a[i]).kind = "LiteralArgument"

RequiredAtBothEnds ==
    HandlerOptions(<<>>,
                   <<Entry(<<"a">>, Req("string", FALSE, <<>>)),
                     Entry(<<"b">>, Opt("string", TRUE, <<>>)),
                     Entry(<<"c">>, Req("string", FALSE, <<>>))>>,
                   Undefined, <<>>)

\* C1: with positionals a (required), b (optional, many), c (required) a
\* handler can be constructed, and fromProgramArgs binds the first token to a,
\* the last to c and those between, in order, to b (the empty sequence when
\* there are two tokens); with one token it fails with the required-argument
\* error for c.
C1_RequiredAtBothEndsBinds ==
    handlerOptions = RequiredAtBothEnds =>
        /\ pc # "Error"
        /\ (Ended /\ Len(args) >= 2) =>
              /\ pc = "returned"
              /\ outcome.values[<<"a">>] = Str(args[1])
              /\ outcome.values[<<"c">>] = Str(args[Len(args)])
              /\ outcome.values[<<"b">>] =
                    List([i \in 1..(Len(args) - 2) |-> Str(args[i + 1])])
        /\ (Ended /\ Len(args) = 1) =>
              /\ pc = "OptError"
              /\ outcome.code = OptErrorCode("required")
              /\ outcome.arg = <<"c">>

BadOrdering(positionals) ==
    \E i, j \in DOMAIN positionals :
        /\ i < j
        /\ \/ VariableLength(positionals[i].opt) /\ positionals[j].opt.required
           \/ positionals[i].opt.many

RequiredThenOptional(positionals) ==
    /\ \A i \in DOMAIN positionals : Single(positionals[i].opt)
    /\ \A i, j \in DOMAIN positionals :
          (i < j /\ positionals[j].opt.required) => positionals[i].opt.required

RequiredCount(positionals) ==
    Cardinality({i \in DOMAIN positionals : positionals[i].opt.required})

C3_Case ==
    /\ pc \notin {"new", "Error", "constructed"}
    /\ handlerOptions.options = <<>>
    /\ handlerOptions.conditions = <<>>
    /\ RequiredThenOptional(handlerOptions.positional)
    /\ AllLiteral(args)
    /\ RequiredCount(handlerOptions.positional) <= Len(args)
    /\ Len(args) <= Len(handlerOptions.positional)

\* C3: with positionals that are a run of required single specs followed by
\* optional single specs, and n literal tokens, required <= n <= declared,
\* fromProgramArgs returns with the i-th token bound to the i-th spec for
\* every i <= n and every later spec unset.
C3_BindsInDeclarationOrder ==
    (C3_Case /\ Ended) =>
        /\ pc = "returned"
        /\ \A i \in DOMAIN handlerOptions.positional :
              outcome.values[handlerOptions.positional[i].name] =
                  IF i <= Len(args) THEN Str(args[i]) ELSE Undefined

\* a, b required, c, d optional, three tokens of which the last two differ
C3_Witness ==
    /\ C3_Case
    /\ pc = "returned"
    /\ Len(handlerOptions.positional) = 4
    /\ RequiredCount(handlerOptions.positional) = 2
    /\ Len(args) = 4
    /\ args[3] # args[4]

NumberKeys ==
    {k \in DOMAIN opts : WrapperOf(handlerOptions, k).type = "number"}

\* C4: a number-typed option with no inline value and no further token fails
\* with value-required; raw text that is not numeric fails with invalid-value,
\* for an option and for a positional, so that no number-typed key ever holds
\* the value NaN; otherwise the number parsed is stored.
C4_NumberCoercionRejectsNonNumeric ==
    /\ \A k \in NumberKeys : ~IsUndefined(opts[k]) => IsNum(opts[k])
    /\ (args = <<toCliArg(n_num)>> /\ pc \notin {"constructed", "scan"} /\ mArgs = <<>>
            /\ ~IsUndefined(parsed))
          => (pc = "OptError" /\ outcome.code = OptErrorCode("valueRequired"))

DuplicateAlias(options) ==
    \E i, j \in DOMAIN options :
        /\ i # j
        /\ Range(options[i].opt.alias) \cap Range(options[j].opt.alias) # {}

\* C5: two options that list the same alias character make the constructor
\* fail with a configuration error: no handler is constructed in which an
\* alias is listed by two options.
C5_DuplicateAliasRejected ==
    DuplicateAlias(handlerOptions.options) => pc \in {"new", "Error"}

HelpResolved ==
    /\ pc \notin {"new", "Error", "constructed"}
    /\ ~IsUndefined(handlerOptions.help)
    /\ opts[handlerOptions.help.str] = Bool(TRUE)

ScanErrorCodes ==
    {OptErrorCode("unrecognised"), OptErrorCode("valueRequired"),
     OptErrorCode("noValuePermitted"), OptErrorCode("invalidValue")}

TerminatorReached ==
    /\ pc = "help"
    /\ ~IsUndefined(parsed)
    /\ parsed.kind = "AbortProcessingSymbol"

TerminatorIndex == Len(args) - Len(mArgs)

BeforeTerminator == Len(positional) - Len(mArgs)

\* C7: the first argument equal to "--" that the scan reaches ends it: the
\* arguments after it are all pushed as positional tokens, in their order,
\* whatever they look like; none of them is shifted or resolved as an option;
\* the terminator itself is not pushed.
C7_TerminatorEndsScanning ==
    TerminatorReached =>
        /\ TerminatorIndex >= 1
        /\ args[TerminatorIndex] = <<"-", "-">>
        /\ mArgs = SubSeq(args, TerminatorIndex + 1, Len(args))
        /\ BeforeTerminator >= 0
        /\ SubSeq(positional, BeforeTerminator + 1, Len(positional)) = mArgs
        /\ \A i \in 1..BeforeTerminator :
              parseArg(positional[i]).kind = "LiteralArgument"
        /\ (\A i \in 1..(TerminatorIndex - 1) :
                parseArg(args[i]).kind = "LiteralArgument")
              => /\ \A k \in DOMAIN opts : IsUndefined(opts[k])
                 /\ positional = SubSeq(args, 1, TerminatorIndex - 1) \o mArgs

\* The terminator, then a declared long option and a second "--".
C7_Witness ==
    /\ TerminatorReached
    /\ BeforeTerminator = 0
    /\ mArgs = <<toCliArg(n_help), <<"-", "-">>>>

ScannedSpellingOf(k) ==
    /\ pc \in {"help", "OptError"}
    /\ args = <<toCliArg(k)>>
    /\ Lookup(handlerOptions.options, k) = Opt("boolean", FALSE, <<>>)

ResolvedTo(k) ==
    /\ pc = "help"
    /\ parsed.kind = "LongOption"
    /\ opts[k] = Bool(TRUE)
    /\ \A o \in DOMAIN opts : o # k => IsUndefined(opts[o])

\* C8: for every identifier of a declared option set, the spelling toCliArg
\* derives, passed as the argument, is classified as a long option and
\* resolves to that identifier, not to another one and not to "unrecognised".
C8_RoundTrip ==
    \A k \in Identifiers : ScannedSpellingOf(k) => ResolvedTo(k)

PlainIdentifier(k) == k # <<>> /\ \A i \in DOMAIN k : IsNameChar(k[i])

SpellingShared(k) ==
    \E i \in DOMAIN handlerOptions.options :
        /\ handlerOptions.options[i].name # k
        /\ toCliArg(handlerOptions.options[i].name) = toCliArg(k)

\* C8 as amended: the round trip holds for every declared identifier that is
\* made of letters, digits, underscores and hyphens only and whose derived
\* spelling no other declared identifier shares.
C8_RoundTripOfPlainUniqueSpellings ==
    \A k \in Identifiers :
        (ScannedSpellingOf(k) /\ PlainIdentifier(k) /\ ~SpellingShared(k))
            => ResolvedTo(k)

\* aB2Cd, declared beside another option, resolved from --a-b2-cd
C8_Witness ==
    /\ ScannedSpellingOf(<<"a", "B", "2", "C", "d">>)
    /\ ResolvedTo(<<"a", "B", "2", "C", "d">>)
    /\ Len(handlerOptions.options) >= 2
    /\ args = <<<<"-", "-", "a", "-", "b", "2", "-", "c", "d">>>>

Failing ==
    {i \in DOMAIN handlerOptions.conditions :
        ~Test(handlerOptions.conditions[i].test, Values(handlerOptions, opts))}

FirstFailing == CHOOSE i \in Failing : \A j \in Failing : i <= j

ConditionFailed == pc = "OptError" /\ outcome.text = "Condition failed:"

\* C9: the conditions are tested in declaration order once the positional
\* phases and the surplus check have passed; the call fails at the first
\* condition whose predicate is false, with an error that names it and whose
\* code is 64 plus its zero-based index; no later condition is tested; when
\* every predicate is true the value map is returned.
C9_FirstFailingConditionReported ==
    /\ ConditionFailed =>
          /\ Failing # {}
          /\ outcome.arg = handlerOptions.conditions[FirstFailing].name
          /\ outcome.code = [num |-> ConditionCodeBase + FirstFailing - 1]
          /\ NextCondition = FirstFailing
          /\ positional = <<>>
    /\ pc = "returned" =>
          /\ Failing = {}
          /\ outcome = [values |-> Values(handlerOptions, opts)]
    /\ pc = "conditions" => \A i \in Failing : i >= NextCondition
    /\ pc \notin {"conditions", "returned", "OptError"} => code = ConditionCodeBase
    /\ (pc = "OptError" /\ ~ConditionFailed) => code = ConditionCodeBase

\* The third of three conditions fails, after two that hold.
C9_Witness ==
    /\ ConditionFailed
    /\ FirstFailing = 3
    /\ outcome.code = [num |-> 66]

FirstTerminator(a) ==
    IF \E i \in DOMAIN a : a[i] = <<"-", "-">>
    THEN CHOOSE i \in DOMAIN a : a[i] = <<"-", "-">> /\ \A j \in 1..(i - 1) : a[j] # <<"-", "-">>
    ELSE Len(a) + 1

\* The positional tokens of an argument list that holds no option before its
\* terminator: all its arguments but the terminator.
OnlyPositionals(a) == AllLiteral(SubSeq(a, 1, FirstTerminator(a) - 1))

Tokens(a) ==
    SubSeq(a, 1, FirstTerminator(a) - 1) \o SubSeq(a, FirstTerminator(a) + 1, Len(a))

\* The tokens the value map holds for the positionals, in declaration order.
RECURSIVE Bound(_, _)
Bound(values, positionals) ==
    IF positionals = <<>> THEN <<>>
    ELSE LET v == values[positionals[1].name]
         IN  (IF IsUndefined(v) THEN <<>> ELSE IF IsList(v) THEN v.list ELSE <<v>>)
                \o Bound(values, Tail(positionals))

Coerced(t) ==
    (IF AllDigits(t) THEN {Str(t), ToNumber(t)} ELSE {Str(t), NaN})
        \cup (IF t = <<"1">> THEN {Bool(TRUE)} ELSE {})

TooMany == pc = "OptError" /\ outcome.text = "Too many arguments at:"

\* A positional token was refused by getPositionArgValue before the surplus
\* check was reached.
InvalidValue == pc = "OptError" /\ outcome.code = OptErrorCode("invalidValue")

C10_Case ==
    /\ pc \notin {"new", "Error", "constructed", "scan"}
    /\ OnlyPositionals(args)

\* C10: positional tokens left when every declared positional has been
\* processed make fromProgramArgs fail with the unrecognised error naming the
\* first of them in input order; with no positional declared, any positional
\* token does; a call that returns has bound every positional token.
C10_SurplusNamesFirstLeftover ==
    C10_Case =>
        LET n == Len(handlerOptions.positional)
            many == \E i \in 1..n : handlerOptions.positional[i].opt.many
            tokens == Tokens(args)
        IN  /\ pc = "surplus" =>
                  positional = IF many THEN <<>> ELSE SubSeq(tokens, n + 1, Len(tokens))
            /\ TooMany =>
                  /\ ~many
                  /\ Len(tokens) > n
                  /\ outcome.arg = tokens[n + 1]
                  /\ outcome.code = OptErrorCode("unrecognised")
            /\ (Ended /\ n = 0 /\ tokens # <<>>) => (TooMany /\ outcome.arg = tokens[1])
            /\ (Ended /\ ~many /\ Len(tokens) > n /\ ~InvalidValue) => TooMany
            /\ pc = "returned" =>
                  LET b == Bound(outcome.values, handlerOptions.positional)
                  IN  /\ Len(b) = Len(tokens)
                      /\ \A i \in DOMAIN b : b[i] \in Coerced(tokens[i])

\* Two positionals declared, four tokens: the third is named.
C10_Witness ==
    /\ C10_Case
    /\ TooMany
    /\ Len(handlerOptions.positional) = 2
    /\ Len(Tokens(args)) = 4
    /\ Tokens(args)[3] # Tokens(args)[4]

\* The usage string of the handler, as a message embeds it.
Usage == Str(helpMessage(handlerOptions))

EmbedsHelp == pc = "OptError" /\ outcome.help = Usage

\* The messages fromProgramArgs builds itself, once the option scan is over.
HelpBearingTexts ==
    {"Argument is required.", "Too many arguments at:", "Condition failed:"}

\* The messages of the option scan and of the two value readers.
BareTexts ==
    {"Error: Option required an argument",
     "Error: Argument supplied for boolean option",
     "Error: Argument must be numeric for",
     "Error: Only 0, 1, true or false are supported for boolean",
     "Error: Unrecognised long option",
     "Error: Unrecognised short option"}

\* C11: every parse error fromProgramArgs raises, of every kind, carries a
\* message that embeds the usage string of the handler.
C11_EveryErrorEmbedsHelp == pc = "OptError" => EmbedsHelp

\* C11 as amended: the errors fromProgramArgs raises after the option scan
\* for a missing required positional, a surplus positional or a failed
\* condition embed the usage string; the errors of the option scan and of
\* value reading (value-required, value-not-permitted, invalid-value,
\* unrecognised option) carry their message alone.
C11_PositionalAndConditionErrorsEmbedHelp ==
    pc = "OptError" =>
        /\ outcome.text \in HelpBearingTexts \cup BareTexts
        /\ outcome.text \in HelpBearingTexts => EmbedsHelp
        /\ outcome.text \in BareTexts => IsUndefined(outcome.help)
        /\ outcome.code = OptErrorCode("required") => EmbedsHelp
        /\ "num" \in DOMAIN outcome.code => EmbedsHelp
        /\ outcome.code \in {OptErrorCode("valueRequired"),
                              OptErrorCode("noValuePermitted"),
                              OptErrorCode("invalidValue")}
              => IsUndefined(outcome.help)
        /\ outcome.code = OptErrorCode("unrecognised") =>
              (EmbedsHelp <=> outcome.text = "Too many arguments at:")

\* A required positional is missing under a handler that declares options:
\* the message carries the usage string, which lists them.
C11_Witness ==
    /\ pc = "OptError"
    /\ outcome.code = OptErrorCode("required")
    /\ outcome.arg = n_file
    /\ handlerOptions.options = CliOptions
    /\ EmbedsHelp
    /\ Len(outcome.help.str) > Len(n_file)

\* The scanning loop run to its end on rest: the accumulator, the positional
\* buffer and the error it stops with, if any.
RECURSIVE ScanAll(_, _, _, _)
ScanAll(options, acc, rest, buffer) ==
    IF rest = <<>> THEN [acc |-> acc, positional |-> buffer, error |-> NoError]
    ELSE LET p == parseArg(Head(rest))
             step == CASE p.kind = "LongOption" ->
                             LongOptionStep(options, acc, p, Tail(rest))
                       [] p.kind = "ShortOptions" ->
                             ShortOptionsLoop(options, acc, p, 1, Tail(rest))
                       [] OTHER -> Step(acc, Tail(rest), NoError)
             collected == CollectPositional(buffer, p, Tail(rest))
         IN  IF IsError(step.error) \/ p.kind = "AbortProcessingSymbol"
             THEN [acc |-> step.acc, positional |-> collected, error |-> step.error]
             ELSE ScanAll(options, step.acc, step.mArgs, collected)

Scanned == ScanAll(handlerOptions, NewOpts(handlerOptions), args, <<>>)

OptionViolation == IsError(Scanned.error)

HelpAsked == ~OptionViolation /\ HelpRequested(handlerOptions, Scanned.acc)

BooleanTexts == {<<"0">>, <<"1">>, <<"f", "a", "l", "s", "e">>, <<"t", "r", "u", "e">>}

\* The spec the i-th positional token falls to: the i-th declared, or the
\* last one when that one is a multiplicity spec and i is beyond it.
SpecOf(positionals, i) ==
    IF i <= Len(positionals) THEN positionals[i].opt
    ELSE positionals[Len(positionals)].opt

Placeable(positionals, i) ==
    /\ positionals # <<>>
    /\ i <= Len(positionals) \/ positionals[Len(positionals)].opt.many

\* What is wrong with a positional buffer, read off the declaration: a token
\* a boolean spec refuses, a required spec with no token, a token no spec takes.
Refused(positionals, buffer) ==
    \E i \in DOMAIN buffer :
        /\ Placeable(positionals, i)
        /\ SpecOf(positionals, i).type = "boolean"
        /\ buffer[i] \notin BooleanTexts

Missing(positionals, buffer) == Len(buffer) < RequiredCount(positionals)

Surplus(positionals, buffer) ==
    \E i \in DOMAIN buffer : ~Placeable(positionals, i)

PositionalViolation ==
    /\ ~OptionViolation
    /\ ~HelpAsked
    /\ \/ Refused(handlerOptions.positional, Scanned.positional)
       \/ Missing(handlerOptions.positional, Scanned.positional)
       \/ Surplus(handlerOptions.positional, Scanned.positional)

ConditionViolation ==
    \E i \in DOMAIN handlerOptions.conditions :
        ~Test(handlerOptions.conditions[i].test, Values(handlerOptions, Scanned.acc))

PositionalTexts ==
    {"Argument is required.", "Too many arguments at:",
     "Error: Only 0, 1, true or false are supported for boolean"}

OptionError == pc = "OptError" /\ outcome.text \in BareTexts \ PositionalTexts

PositionalError == pc = "OptError" /\ outcome.text \in PositionalTexts

Bogus == <<"-", "-", "b", "o", "g", "u", "s">>

\* C12: of the violations an argument list holds, fromProgramArgs reports
\* one, the first in the order option scan (left to right), positional
\* assignment, conditions: an option error whenever the scan finds one,
\* whatever else is wrong; a positional error only when the scan found none;
\* a condition failure only when the scan and the assignment found none; and
\* no condition is evaluated before both have succeeded.
C12_FirstViolationReported ==
    /\ pc = "OptError" =>
          /\ OptionError <=> OptionViolation
          /\ OptionError => outcome = Scanned.error /\ seen = {} /\ code = ConditionCodeBase
          /\ PositionalError <=> PositionalViolation
          /\ PositionalError =>
                /\ code = ConditionCodeBase
                /\ Refused(handlerOptions.positional, Scanned.positional) => InvalidValue
          /\ ConditionFailed <=> (~OptionViolation /\ ~PositionalViolation)
          /\ ConditionFailed => ConditionViolation
    /\ (Ended /\ OptionViolation) => OptionError
    /\ (Ended /\ PositionalViolation) => PositionalError
    /\ (Ended /\ args # <<>> /\ args[1] = Bogus) =>
          /\ OptionError
          /\ outcome.code = OptErrorCode("unrecognised")
          /\ outcome.arg = <<"-", "-">> \o SubSeq(Bogus, 3, Len(Bogus))
    /\ (pc \in {"conditions", "returned"} \/ code # ConditionCodeBase) =>
          /\ ~OptionViolation
          /\ ~HelpAsked
          /\ ~PositionalViolation
          /\ positional = <<>>

\* An unknown option first, no token for the required positional and a
\* condition that fails: the unknown option is what is reported.
C12_Witness ==
    /\ OptionError
    /\ args[1] = Bogus
    /\ Len(args) = 1
    /\ Missing(handlerOptions.positional, Scanned.positional)
    /\ ConditionViolation

====
